---- MODULE Spec2Model ----
(***************************************************************************)
(* Model of pkg/project/stack.go: the run orchestrator of a stack          *)
(* (Run, Import, Cancel, Lock/Unlock, PullState/PushState and the event    *)
(* consumer goroutine of Run).                                             *)
(*                                                                         *)
(* Every process of Procs is one CLI process working on the same stack     *)
(* key (home, app, stage) in a working directory of its own; it calls      *)
(* Run, Import and Cancel one after the other.  The remote lock and the    *)
(* remote state blob are shared by all processes.  Go's defer is modelled  *)
(* as an explicit stack of deferred calls that the return path pops.       *)
(***************************************************************************)
EXTENDS Naturals, Sequences, FiniteSets

\* ---------------------------------------------------------------- bounds

\* Calls (Run, Cancel) one process alone starts in one behaviour.
MaxCalls == 2

\* Engine events emitted in one behaviour, over all runs.
MaxEvents == 2

\* Calls (Import, Cancel) one process alone starts in one behaviour.
MaxImports == 3

\* Calls started in one behaviour of the concurrent processes, over all of them.
MaxConcurrentCalls == 3

\* Calls (Run) one process alone starts in one behaviour, over the programs.
MaxExtractCalls == 1

Procs == {"p1", "p2"}

\* ------------------------------------------------------------- constants

Commands == {"up", "destroy", "refresh"}

Stage == "dev"
App == "app"

\* The marker files of the engine in the working directory, in the order
\* os.ReadDir lists them (sorted by filename).
MarkerOrder == <<"Pulumi.dev.yaml", "Pulumi.yaml">>

\* A state file: absent, or a deployment with its resource list.
NoState == [exists |-> FALSE, resources |-> <<>>]
Snapshot(resources) == [exists |-> TRUE, resources |-> resources]

NoURN == <<>>

\* The sentinel and provider errors a call can return.
ErrNil == "nil"
ErrLockExists == "provider.ErrLockExists"
ErrStateNotFound == "provider.ErrStateNotFound"
ErrStageNotFound == "ErrStageNotFound"
ErrStackRunFailed == "ErrStackRunFailed"
ErrOther == "error"

\* No error is returned: the goroutine is panicking.
Panicking == "panic"

\* ------------------------------------------------------------ sequences

\* strings.HasPrefix over strings written as sequences of words.
HasPrefix(s, prefix) ==
  /\ Len(s) >= Len(prefix)
  /\ SubSeq(s, 1, Len(prefix)) = prefix

IsPrefixOf(s, t) == HasPrefix(t, s)

RECURSIVE SelectSeqBy(_, _)
\* The subsequence of s of the elements in the set keep.
SelectSeqBy(s, keep) ==
  IF s = <<>> THEN <<>>
  ELSE IF Head(s) \in keep THEN <<Head(s)>> \o SelectSeqBy(Tail(s), keep)
       ELSE SelectSeqBy(Tail(s), keep)

Range(s) == {s[i] : i \in 1..Len(s)}

Count(s, x) == Cardinality({i \in 1..Len(s) : s[i] = x})

\* The first index of x in s, 0 when x does not occur.
IndexOf(s, x) ==
  IF x \in Range(s) THEN CHOOSE i \in 1..Len(s) : s[i] = x /\ \A j \in 1..(i-1) : s[j] # x
  ELSE 0

\* ------------------------------------------------------------------ JSON

\* A JSON value as encoding/json decodes it into interface{}: nil, a string,
\* a number, a []interface{} or a map[string]interface{}.  An object is the
\* set of its entries; a key is written as the sequence of its parts, the
\* underscore a part of its own.
JNull == [k |-> "null", v |-> ""]
JString(text) == [k |-> "string", v |-> text]
JNumber(text) == [k |-> "number", v |-> text]
JArray(items) == [k |-> "array", v |-> items]
JObject(entries) == [k |-> "object", v |-> entries]

Entry(key, val) == [key |-> key, val |-> val]

\* An empty (or nil) map.
NoOutputs == JObject({})

\* _, ok := m[key]
HasKey(m, key) == \E e \in m.v : e.key = key

\* m[key], nil when the map has no such key.
Get(m, key) == IF HasKey(m, key) THEN (CHOOSE e \in m.v : e.key = key).val ELSE JNull

Plaintext == <<"plaintext">>

\* The secret wrapper of the engine: an object whose plaintext is JSON text.
Wrapper(text) == JObject({Entry(Plaintext, JString(text))})

\* json.Unmarshal of the texts the outputs carry; a text that is not JSON
\* leaves the target nil (the error is dropped, line 636).
Unmarshal(text) ==
  CASE text = "1" -> JNumber("1")
    [] text = "\"s\"" -> JString("s")
    [] text = "{\"b\":1}" -> JObject({Entry(<<"b">>, JNumber("1"))})
    [] text = "{\"plaintext\":\"1\"}" -> Wrapper("1")
    [] OTHER -> JNull

\* Line 634: value["plaintext"] != nil.
IsWrapper(value) == HasKey(value, Plaintext) /\ Get(value, Plaintext) # JNull

RECURSIVE decryptPanics(_)
\* Line 636: value["plaintext"].(string) panics when the plaintext of a
\* wrapper decrypt visits is not a string.
decryptPanics(input) ==
  \E e \in input.v :
    /\ e.val.k = "object"
    /\ IF IsWrapper(e.val) THEN Get(e.val, Plaintext).k # "string" ELSE decryptPanics(e.val)

RECURSIVE decrypt(_)
\* Lines 630-646: every entry of the map that is a map is replaced, by the
\* value parsed from its plaintext if it has one, by its own decryption
\* otherwise; every other entry (an array too) stays as it is.
decrypt(input) ==
  JObject({ Entry(e.key,
                  IF e.val.k = "object"
                  THEN IF IsWrapper(e.val)
                       THEN IF Get(e.val, Plaintext).k = "string"
                            THEN Unmarshal(Get(e.val, Plaintext).v) ELSE JNull
                       ELSE decrypt(e.val)
                  ELSE e.val) : e \in input.v })

\* ---------------------------------------------------------------- events

\* events.EngineEvent, reduced to the fields the consumer reads: the
\* variant, and a diagnostic's severity, message (a sequence of words) and URN.
EngineEvent(kind, severity, message, urn) ==
  [kind |-> kind, severity |-> severity, message |-> message, urn |-> urn]

NoEvent == EngineEvent("none", "", <<>>, "")

EvCreateFailed == EngineEvent("diagnostic", "error", <<"create", "failed">>, "urn:bucket")
EvUpdateTimeout == EngineEvent("diagnostic", "error", <<"update", "timeout">>, "urn:queue")
EvGeneric == EngineEvent("diagnostic", "error", <<"update", "failed", "with", "errors">>, "")
EvWarning == EngineEvent("diagnostic", "warning", <<"update", "failed">>, "urn:bucket")
EvSummary == EngineEvent("summary", "", <<>>, "")

EngineEvents == {EvCreateFailed, EvUpdateTimeout, EvGeneric, EvWarning, EvSummary}

\* The literal of line 300.
UpdateFailed == <<"update", "failed">>

\* ------------------------------------------------------------- variables

VARIABLES
  lock,       \* the remote lock of the stack key is held
  remote,     \* the remote state blob: NoState or a snapshot
  callsLeft,  \* calls that may still start
  evLeft,     \* engine events that may still be emitted
  pc,         \* pc[p]: where process p's main control flow is
  call,       \* call[p]: the call in progress, [name, cmd, opts]
  ret,        \* ret[p]: the error the call returns
  defers,     \* defers[p]: the deferred calls, last registered first
  local,      \* local[p]: <workdir>/.pulumi/stacks/<app>/<stage>.json
  markers,    \* markers[p]: the files named Pulumi* in the working directory
  trace,      \* trace[p]: the operations of the call in progress, in order
  onEvent,    \* onEvent[p]: what input.OnEvent was called with, in order
  chan,       \* chan[p]: the event a sender is blocked on, or NoEvent
  closed,     \* closed[p]: the event channel is closed
  cpc,        \* cpc[p]: where the consumer goroutine is
  cur,        \* cur[p]: the event the consumer is processing
  received,   \* received[p]: the events the consumer took from the channel
  complete,   \* complete[p]: the CompleteEvent record of the run
  eventlog,   \* eventlog[p]: the lines of event.log
  logOpen,    \* logOpen[p]: event.log is open
  ctxDone,    \* ctxDone[p]: the run's context is cancelled
  program     \* the outputs the infrastructure program gives the root resource

shared == <<lock, remote>>
budget == <<callsLeft, evLeft>>
mainv == <<pc, call, ret, defers, trace>>
workdir == <<local, markers>>
consumer == <<chan, closed, cpc, cur, received, eventlog, ctxDone>>
vars == <<lock, remote, callsLeft, evLeft, pc, call, ret, defers, local, markers,
          trace, onEvent, chan, closed, cpc, cur, received, complete, eventlog,
          logOpen, ctxDone, program>>

\* Type tokens, written as the sequence of their parts between colons.
BucketType == <<"aws", "s3", "Bucket">>
ComponentType == <<"sst", "aws", "Component">>
StackType == <<"pulumi", "pulumi", "Stack">>
BadType == <<"bucket">>

\* ImportOptions; Parent is written as the sequence of its parts between "::".
Options(type, name, id, parent) == [Type |-> type, Name |-> name, ID |-> id, Parent |-> parent]

NoOpts == Options(<<>>, "", "", <<>>)

\* The ImportOptions a caller passes.
ImportInputs ==
  { Options(BucketType, "a", "id-1", <<>>),
    Options(BucketType, "a", "id-2", <<>>),
    Options(BucketType, "a", "id-1", <<ComponentType, "site">>),
    Options(StackType, "app-dev", "id-1", <<>>),
    Options(BadType, "a", "id-1", <<>>),
    Options(BucketType, "a", "id-1", <<"site">>) }

NoCall == [name |-> "none", cmd |-> "", opts |-> NoOpts]

\* &CompleteEvent{...} of lines 279-287.
NewComplete ==
  [Links |-> NoOutputs, Receivers |-> NoOutputs, Warps |-> NoOutputs, Hints |-> NoOutputs,
   Outputs |-> NoOutputs, Errors |-> <<>>, Finished |-> FALSE, Resources |-> <<>>]

\* A StackEvent handed to OnEvent.
StackEvent(type, cmd, ev) == [type |-> type, cmd |-> cmd, ev |-> ev]

\* ------------------------------------------------------- provider (backend)

\* provider.Lock: ok, or AlreadyLocked when the key has a holder.
ProviderLock(held) == IF held THEN ErrLockExists ELSE ErrNil

\* provider.Unlock: the key has no holder afterwards.
ProviderUnlock(held) == FALSE

\* provider.PullState: what the pull returns and leaves at the local path.
ProviderPullState(blob) ==
  IF blob.exists
  THEN {[err |-> ErrNil, file |-> blob], [err |-> ErrOther, file |-> NoState]}
  ELSE {[err |-> ErrStateNotFound, file |-> NoState], [err |-> ErrOther, file |-> NoState]}

\* provider.PushState: the remote blob after uploading the local file; an
\* upload that fails (or has no file to read) leaves the blob as it was.
ProviderPushState(blob, file, ok) == IF ok /\ file.exists THEN file ELSE blob

\* ------------------------------------------------------------ engine (pulumi)

\* A URN urn:pulumi:<stage>::<app>::<type>::<name>, the type qualified by
\* the parent's type: <<stage, app, types, name>>.
URN(types, name) == <<Stage, App, types, name>>

\* apitype.ResourceV3: the fields Import sets, and the outputs (none here).
Resource(urn, parent, custom, id, type) ==
  [urn |-> urn, parent |-> parent, custom |-> custom, id |-> id, type |-> type,
   outputs |-> NoOutputs]

RootURN == URN(<<StackType>>, "app-dev")
RootResource == Resource(RootURN, NoURN, FALSE, "", StackType)

\* The root stack resource carrying the outputs of the program.
RootWith(outputs) == [RootResource EXCEPT !.outputs = outputs]

\* The resource list after the program ran: the root stack resource carries
\* the program's outputs, and is put in front if the list has none.
WithRoot(resources, outputs) ==
  IF \E i \in 1..Len(resources) : resources[i].urn = RootURN
  THEN [i \in 1..Len(resources) |->
          IF resources[i].urn = RootURN THEN [resources[i] EXCEPT !.outputs = outputs]
          ELSE resources[i]]
  ELSE <<RootWith(outputs)>> \o resources

\* The local state files an engine operation can leave: the full effect when
\* it succeeds, the full effect or none (partial progress) when it fails.
EngineEffect(cmd, file, ok, outputs) ==
  LET done == CASE cmd = "up" -> Snapshot(WithRoot(file.resources, outputs))
                [] cmd = "destroy" -> Snapshot(<<>>)
                [] OTHER -> file
  IN IF ok THEN {done} ELSE {done, file}

\* --------------------------------------------------------------- helpers

Push(s, d) == <<d>> \o s

\* Where the main flow goes after a return statement or a finished deferred
\* call: to the next deferred call, or out of the function.
Unwind(d) == IF d = <<>> THEN "done" ELSE "return"

\* The consumer goroutine of p is not in the middle of an event.
Quiescent(p) == cpc[p] \in {"off", "select", "stopped"} /\ chan[p] = NoEvent

Idle(p) == pc[p] = "idle" /\ callsLeft > 0

\* A call of p begins.
Begin(p, c) ==
  /\ callsLeft' = callsLeft - 1
  /\ call' = [call EXCEPT ![p] = c]

\* The call of p has returned and its goroutine is at rest: the record of the
\* call (what it did, what the callback and event.log received) is dropped.
\* The marker files stay in the working directory; the local state file is
\* dropped too, since every call that reads it starts by wiping the
\* directory it is in (PullState, line 590).  A consumer still waiting on the
\* channel of the finished run can do nothing more and is dropped with it.
Exit(p) ==
  /\ pc[p] = "done"
  /\ Quiescent(p)
  /\ pc' = [pc EXCEPT ![p] = "idle"]
  /\ call' = [call EXCEPT ![p] = NoCall]
  /\ ret' = [ret EXCEPT ![p] = ErrNil]
  /\ trace' = [trace EXCEPT ![p] = <<>>]
  /\ onEvent' = [onEvent EXCEPT ![p] = <<>>]
  /\ closed' = [closed EXCEPT ![p] = FALSE]
  /\ cpc' = [cpc EXCEPT ![p] = "off"]
  /\ cur' = [cur EXCEPT ![p] = NoEvent]
  /\ received' = [received EXCEPT ![p] = <<>>]
  /\ complete' = [complete EXCEPT ![p] = NewComplete]
  /\ eventlog' = [eventlog EXCEPT ![p] = <<>>]
  /\ logOpen' = [logOpen EXCEPT ![p] = FALSE]
  /\ ctxDone' = [ctxDone EXCEPT ![p] = FALSE]
  /\ local' = [local EXCEPT ![p] = NoState]
  /\ UNCHANGED <<shared, budget, defers, markers, chan>>
  /\ UNCHANGED program

\* A returned call is recorded as left before any process takes another step.
Leaving == \E p \in Procs : pc[p] = "done" /\ Quiescent(p)

\* return e, with the deferred calls d registered.
Return(p, e, d) ==
  /\ ret' = [ret EXCEPT ![p] = e]
  /\ defers' = [defers EXCEPT ![p] = d]
  /\ pc' = [pc EXCEPT ![p] = Unwind(d)]

\* ------------------------------------------------------------------- Run

\* A provider lock that anyone gets: the lock-exists error is not looked at.
LockAcquiredAlways(err) == TRUE

\* Lines 103 and 456: the lock was taken.
LockAcquired(err) == err = ErrNil

\* Line 109: defer s.Unlock().
DeferUnlock(d) == Push(d, "Unlock")

\* A Run that pulls and never registers the deferred push.
DeferPushStateOmitted(d) == d

\* Line 121: defer s.PushState().
DeferPushState(d) == Push(d, "PushState")

\* A Run that closes event.log and never registers the finalizer.
DeferFinalizerOmitted(d) == Push(d, "Close")

\* Lines 277 and 325: defer eventlog.Close(), then the deferred finalizer.
DeferFinalizer(d) == Push(Push(d, "Close"), "Finalizer")

\* An Import that never registers the deferred release of the lock.
DeferProviderUnlockOmitted(d) == d

\* Line 459: defer provider.Unlock(...).
DeferProviderUnlock(d) == Push(d, "ProviderUnlock")

\* Lines 96-100: Run announces the command.
RunStart(p) ==
  /\ Idle(p)
  /\ \E cmd \in Commands :
       /\ Begin(p, [name |-> "Run", cmd |-> cmd, opts |-> NoOpts])
       /\ onEvent' = [onEvent EXCEPT ![p] = <<StackEvent("Command", cmd, NoEvent)>>]
  /\ pc' = [pc EXCEPT ![p] = "lock"]
  /\ UNCHANGED <<shared, evLeft, ret, defers, trace, workdir, consumer, complete, logOpen>>
  /\ UNCHANGED program

\* A Run that registers the deferred Unlock before it looks at the error of
\* the lock, so that a refused Run releases the lock of the holder.
RunLockDeferFirst(p) ==
  /\ pc[p] = "lock"
  /\ LET err == ProviderLock(lock) IN
       IF ~LockAcquired(err)
       THEN /\ onEvent' = [onEvent EXCEPT ![p] =
                 IF err = ErrLockExists
                 THEN Append(@, StackEvent("ConcurrentUpdate", "", NoEvent)) ELSE @]
            /\ Return(p, err, DeferUnlock(defers[p]))
            /\ trace' = [trace EXCEPT ![p] = Append(@, "LockFailed")]
            /\ UNCHANGED lock
       ELSE /\ lock' = TRUE
            /\ defers' = [defers EXCEPT ![p] = DeferUnlock(@)]
            /\ pc' = [pc EXCEPT ![p] = "pull"]
            /\ trace' = [trace EXCEPT ![p] = Append(@, "Lock")]
            /\ UNCHANGED <<ret, onEvent>>
  /\ UNCHANGED <<remote, budget, call, workdir, consumer, complete, logOpen>>
  /\ UNCHANGED program

\* Lines 102-109: the lock is taken or Run returns the lock's error.
RunLock(p) ==
  /\ pc[p] = "lock"
  /\ LET err == ProviderLock(lock) IN
       IF ~LockAcquired(err)
       THEN /\ onEvent' = [onEvent EXCEPT ![p] =
                 IF err = ErrLockExists
                 THEN Append(@, StackEvent("ConcurrentUpdate", "", NoEvent)) ELSE @]
            /\ Return(p, err, defers[p])
            /\ trace' = [trace EXCEPT ![p] = Append(@, "LockFailed")]
            /\ UNCHANGED lock
       ELSE /\ lock' = TRUE
            /\ defers' = [defers EXCEPT ![p] = DeferUnlock(@)]
            /\ pc' = [pc EXCEPT ![p] = "pull"]
            /\ trace' = [trace EXCEPT ![p] = Append(@, "Lock")]
            /\ UNCHANGED <<ret, onEvent>>
  /\ UNCHANGED <<remote, budget, call, workdir, consumer, complete, logOpen>>
  /\ UNCHANGED program

\* Lines 588-610: the local state directory is wiped and the blob fetched.
PullState(blob, file) ==
  {[err |-> ErrOther, file |-> file]} \cup ProviderPullState(blob)

\* A pull that takes a missing state for a new stack whatever the command.
AfterPullAnyCommand(cmd, err) ==
  IF err # ErrNil
  THEN IF err = ErrStateNotFound THEN ErrNil ELSE err
  ELSE ErrNil

\* Lines 112-120: the error Run returns after the pull, ErrNil to go on.
AfterPull(cmd, err) ==
  IF err # ErrNil
  THEN IF err = ErrStateNotFound
       THEN IF cmd # "up" THEN ErrStageNotFound ELSE ErrNil
       ELSE err
  ELSE ErrNil

\* Lines 111-121.
RunPull(p) ==
  /\ pc[p] = "pull"
  /\ \E r \in PullState(remote, local[p]) :
       LET e == AfterPull(call[p].cmd, r.err) IN
         /\ local' = [local EXCEPT ![p] = r.file]
         /\ trace' = [trace EXCEPT ![p] =
              Append(@, IF r.err = ErrNil THEN "Pull"
                        ELSE IF r.err = ErrStateNotFound THEN "PullNotFound"
                        ELSE "PullFailed")]
         /\ IF e # ErrNil
            THEN Return(p, e, defers[p])
            ELSE /\ defers' = [defers EXCEPT ![p] = DeferPushState(@)]
                 /\ pc' = [pc EXCEPT ![p] = "setup"]
                 /\ UNCHANGED ret
  /\ UNCHANGED <<shared, budget, call, markers, onEvent, consumer, complete, logOpen>>
  /\ UNCHANGED program

\* The steps of lines 123-277 that can fail, in order.
SetupSteps ==
  <<"passphrase", "secrets", "env", "build", "metafile", "workspace", "stack", "config",
    "eventlog">>

\* The step named step was reached and did not fail, when the setup fails at
\* the step named fail ("none": no step fails).
Passed(step, fail) == fail = "none" \/ IndexOf(SetupSteps, step) < IndexOf(SetupSteps, fail)

\* Lines 123-417, up to the call of the engine operation: passphrase, secrets,
\* environment, build and files callback; workspace (writes Pulumi.yaml),
\* stack (creates the state file of a new stack), config (writes
\* Pulumi.<stage>.yaml), event.log; then the result record, the consumer
\* goroutine and the deferred finalizer.  A failing step ends the run.
RunSetup(p) ==
  /\ pc[p] = "setup"
  /\ \E fail \in Range(SetupSteps) \cup {"none"} :
       /\ markers' = [markers EXCEPT ![p] =
            @ \cup (IF Passed("workspace", fail) THEN {"Pulumi.yaml"} ELSE {})
              \cup (IF Passed("config", fail) THEN {"Pulumi.dev.yaml"} ELSE {})]
       /\ local' = [local EXCEPT ![p] =
            IF Passed("stack", fail) /\ ~@.exists THEN Snapshot(<<>>) ELSE @]
       /\ IF fail # "none"
          THEN /\ Return(p, ErrOther, defers[p])
               /\ trace' = [trace EXCEPT ![p] = Append(@, "SetupFailed")]
               /\ UNCHANGED <<eventlog, logOpen, complete, cpc>>
          ELSE /\ eventlog' = [eventlog EXCEPT ![p] = <<>>]
               /\ logOpen' = [logOpen EXCEPT ![p] = TRUE]
               /\ complete' = [complete EXCEPT ![p] = NewComplete]
               /\ cpc' = [cpc EXCEPT ![p] = "select"]
               /\ defers' = [defers EXCEPT ![p] = DeferFinalizer(@)]
               /\ trace' = [trace EXCEPT ![p] = Append(@, "Engine")]
               /\ pc' = [pc EXCEPT ![p] = "engine"]
               /\ UNCHANGED ret
  /\ UNCHANGED <<shared, budget, call, onEvent, chan, closed, cur, received, ctxDone>>
  /\ UNCHANGED program

\* ---------------------------------------------------------------- engine

\* The engine operation sends an event on the unbuffered channel: the sender
\* blocks until the consumer takes it.
EngineEmit(p) ==
  /\ pc[p] = "engine"
  /\ chan[p] = NoEvent
  /\ evLeft > 0
  /\ \E e \in EngineEvents : chan' = [chan EXCEPT ![p] = e]
  /\ evLeft' = evLeft - 1
  /\ UNCHANGED <<shared, callsLeft, mainv, workdir, onEvent, closed, cpc, cur, received,
                 complete, eventlog, logOpen, ctxDone>>
  /\ UNCHANGED program

\* Lines 419-423: the error Run returns for the engine's result.
AfterEngine(ok) == IF ~ok THEN ErrStackRunFailed ELSE ErrNil

\* Lines 396-423: the engine operation returns, having sent its events, and
\* closes the channel.  Run returns the sentinel or nil.
EngineReturn(p) ==
  /\ pc[p] = "engine"
  /\ chan[p] = NoEvent
  /\ \E ok \in BOOLEAN :
       /\ \E f \in EngineEffect(call[p].cmd, local[p], ok, program) :
            local' = [local EXCEPT ![p] = f]
       /\ Return(p, AfterEngine(ok), defers[p])
  /\ closed' = [closed EXCEPT ![p] = TRUE]
  /\ trace' = [trace EXCEPT ![p] = Append(@, "EngineDone")]
  /\ UNCHANGED <<shared, budget, call, markers, onEvent, chan, cpc, cur, received,
                 complete, eventlog, logOpen, ctxDone>>
  /\ UNCHANGED program

\* The caller cancels the context of the run while the engine operation is
\* in flight.
CtxCancel(p) ==
  /\ pc[p] = "engine"
  /\ ~ctxDone[p]
  /\ ctxDone' = [ctxDone EXCEPT ![p] = TRUE]
  /\ UNCHANGED <<shared, budget, mainv, workdir, onEvent, chan, closed, cpc, cur,
                 received, complete, eventlog, logOpen>>
  /\ UNCHANGED program

\* -------------------------------------------------- consumer (lines 289-323)

\* Line 294: an event is taken from the channel.
ConsumerRecv(p) ==
  /\ cpc[p] = "select"
  /\ chan[p] # NoEvent
  /\ cur' = [cur EXCEPT ![p] = chan[p]]
  /\ received' = [received EXCEPT ![p] = Append(@, chan[p])]
  /\ chan' = [chan EXCEPT ![p] = NoEvent]
  /\ cpc' = [cpc EXCEPT ![p] = "classify"]
  /\ UNCHANGED <<shared, budget, mainv, workdir, onEvent, closed, complete, eventlog,
                 logOpen, ctxDone>>
  /\ UNCHANGED program

\* Lines 292-293: the context is done.
ConsumerCtxDone(p) ==
  /\ cpc[p] = "select"
  /\ ctxDone[p]
  /\ cpc' = [cpc EXCEPT ![p] = "stopped"]
  /\ UNCHANGED <<shared, budget, mainv, workdir, onEvent, chan, closed, cur, received,
                 complete, eventlog, logOpen, ctxDone>>
  /\ UNCHANGED program

\* Lines 294-297: the channel is closed.
ConsumerClosed(p) ==
  /\ cpc[p] = "select"
  /\ closed[p]
  /\ chan[p] = NoEvent
  /\ cpc' = [cpc EXCEPT ![p] = "stopped"]
  /\ UNCHANGED <<shared, budget, mainv, workdir, onEvent, chan, closed, cur, received,
                 complete, eventlog, logOpen, ctxDone>>
  /\ UNCHANGED program

\* Line 299.
IsErrorDiagnostic(e) == e.kind = "diagnostic" /\ e.severity = "error"

\* A consumer without the break of line 301: no event is held back.
IsSuppressedNever(e) == FALSE

\* Line 300: the generic diagnostic the consumer drops.
IsSuppressed(e) == IsErrorDiagnostic(e) /\ HasPrefix(e.message, UpdateFailed)

\* Lines 303-306.
ErrorOf(e) == [Message |-> e.message, URN |-> e.urn]

\* A consumer that records every error diagnostic, the generic one too.
ClassifyEveryError(errors, e) ==
  IF IsErrorDiagnostic(e) THEN Append(errors, ErrorOf(e)) ELSE errors

\* Lines 299-307: complete.Errors after the event e.
Classify(errors, e) ==
  IF IsErrorDiagnostic(e)
  THEN IF HasPrefix(e.message, UpdateFailed) THEN errors ELSE Append(errors, ErrorOf(e))
  ELSE errors

\* Lines 299-307: an error diagnostic is recorded; the break of line 301
\* leaves the select statement, so the rest of the case is skipped.
ConsumerClassify(p) ==
  /\ cpc[p] = "classify"
  /\ complete' = [complete EXCEPT ![p].Errors = Classify(@, cur[p])]
  /\ cpc' = [cpc EXCEPT ![p] = IF IsSuppressed(cur[p]) THEN "select" ELSE "forward"]
  /\ UNCHANGED <<shared, budget, mainv, workdir, onEvent, chan, closed, cur, received,
                 eventlog, logOpen, ctxDone>>
  /\ UNCHANGED program

\* Lines 315-320: the line json.Marshal makes of an event.
LogLine(e) == <<"{", e.kind, e.severity, e.message, e.urn, "}">>

\* A log written at the front of the file instead of its end.
LogWriteAtFront(lines, open, e) == IF open THEN <<LogLine(e)>> \o lines ELSE lines

\* Lines 319-320: a write to a closed file fails and is ignored.
LogWrite(lines, open, e) == IF open THEN Append(lines, LogLine(e)) ELSE lines

\* A consumer that sets Finished on whatever event it forwards.
FinishOnAnyEvent(finished, e) == TRUE

\* Lines 311-313.
Finish(finished, e) == IF e.kind = "summary" THEN TRUE ELSE finished

\* Lines 309-320: the event goes to the callback, a summary sets Finished,
\* and the event is written to event.log.
ConsumerForward(p) ==
  /\ cpc[p] = "forward"
  /\ onEvent' = [onEvent EXCEPT ![p] = Append(@, StackEvent("Engine", "", cur[p]))]
  /\ complete' = [complete EXCEPT ![p].Finished = Finish(@, cur[p])]
  /\ eventlog' = [eventlog EXCEPT ![p] = LogWrite(@, logOpen[p], cur[p])]
  /\ cpc' = [cpc EXCEPT ![p] = "select"]
  /\ UNCHANGED <<shared, budget, mainv, workdir, chan, closed, cur, received, logOpen,
                 ctxDone>>
  /\ UNCHANGED program

\* ------------------------------------- output extraction (lines 329-392)

Underscore == <<"_">>

KeyLinks == <<"_", "links">>
KeyHints == <<"_", "hints">>
KeyWarps == <<"_", "warps">>
KeyReceivers == <<"_", "receivers">>

\* The reserved keys in the order the finalizer reads them.
ReservedKeys == <<KeyLinks, KeyHints, KeyWarps, KeyReceivers>>

\* Lines 340, 356, 367, 378: x.(map[string]interface{}) panics when the
\* entry is there and is not a map.
AssertionPanics(outputs, key) == HasKey(outputs, key) /\ Get(outputs, key).k # "object"

\* The first reserved key whose type assertion panics, 0 when none does.
PanicAt(outputs) ==
  LET bad == {i \in 1..Len(ReservedKeys) : AssertionPanics(outputs, ReservedKeys[i])}
  IN IF bad = {} THEN 0 ELSE CHOOSE i \in bad : \A j \in bad : i <= j

\* The map under the i-th reserved key, empty when the key is missing or
\* the finalizer panics before it is done with the key.
Section(outputs, i) ==
  IF HasKey(outputs, ReservedKeys[i]) /\ (PanicAt(outputs) = 0 \/ i < PanicAt(outputs))
  THEN Get(outputs, ReservedKeys[i]) ELSE NoOutputs

\* Lines 338-343.
Links(outputs) == Section(outputs, 1)

\* Lines 354-363: the hints that are strings.
Hints(outputs) == JObject({e \in Section(outputs, 2).v : e.val.k = "string"})

\* The JSON names of the fields of Warp and of Receiver (lines 54-68).
WarpFields ==
  {<<"functionID">>, <<"runtime">>, <<"handler">>, <<"bundle">>, <<"properties">>,
   <<"links">>, <<"environment">>}
ReceiverFields == {<<"links">>, <<"environment">>}

\* json.Marshal then json.Unmarshal into a struct: the entries the struct
\* has a field for; the zero struct when the value is not an object.
Decode(value, fields) ==
  IF value.k = "object" THEN JObject({e \in value.v : e.key \in fields}) ELSE NoOutputs

\* Lines 365-374.
Warps(outputs) == JObject({Entry(e.key, Decode(e.val, WarpFields)) : e \in Section(outputs, 3).v})

\* Lines 376-385.
Receivers(outputs) ==
  JObject({Entry(e.key, Decode(e.val, ReceiverFields)) : e \in Section(outputs, 4).v})

\* A finalizer that leaves out the four reserved keys and no other.
OutputsButReserved(outputs) ==
  IF PanicAt(outputs) = 0
  THEN JObject({e \in outputs.v : \A i \in 1..Len(ReservedKeys) : e.key # ReservedKeys[i]})
  ELSE NoOutputs

\* Lines 387-392: the entries whose key does not start with an underscore;
\* the loop is not reached when a type assertion before it panics.
Outputs(outputs) ==
  IF PanicAt(outputs) = 0
  THEN JObject({e \in outputs.v : ~HasPrefix(e.key, Underscore)})
  ELSE NoOutputs

\* Lines 329-392: the result record after the finalizer read the exported
\* resources, and whether it panicked.  decrypt rewrites the outputs of the
\* first resource in place, so the resources of the record carry them
\* decrypted.  (The finalizer also writes types.generated.ts and stores the
\* links with provider.PutLinks; neither is read again here.)
Finalize(c, resources) ==
  IF Len(resources) = 0 THEN [complete |-> c, panics |-> FALSE]
  ELSE IF decryptPanics(resources[1].outputs) THEN [complete |-> c, panics |-> TRUE]
  ELSE LET outputs == decrypt(resources[1].outputs) IN
         [complete |-> [c EXCEPT !.Resources = [resources EXCEPT ![1].outputs = outputs],
                                 !.Links = Links(outputs),
                                 !.Hints = Hints(outputs),
                                 !.Warps = Warps(outputs),
                                 !.Receivers = Receivers(outputs),
                                 !.Outputs = Outputs(outputs)],
          panics |-> PanicAt(outputs) # 0]

\* ------------------------------------------------ deferred calls of Run

Deferred(p, d) == pc[p] = "return" /\ defers[p] # <<>> /\ Head(defers[p]) = d

\* A deferred call is done: the next one runs, or the function is left; a
\* panic goes on up the stack once the deferred calls have run, and the
\* process dies of it.
Popped(p) ==
  /\ defers' = [defers EXCEPT ![p] = Tail(@)]
  /\ pc' = [pc EXCEPT ![p] =
       IF Tail(defers[p]) = <<>> /\ ret[p] = Panicking THEN "panic"
       ELSE Unwind(Tail(defers[p]))]

\* Lines 329-392: the finalizer exports the deployment and fills the result.
DeferredExtract(p) ==
  /\ Deferred(p, "Finalizer")
  /\ LET f == Finalize(complete[p], local[p].resources) IN
       /\ complete' = [complete EXCEPT ![p] = f.complete]
       /\ ret' = [ret EXCEPT ![p] = IF f.panics THEN Panicking ELSE @]
  /\ trace' = [trace EXCEPT ![p] = Append(@, "Extract")]
  /\ pc' = [pc EXCEPT ![p] = "emit"]
  /\ UNCHANGED <<shared, budget, call, defers, workdir, onEvent, consumer, logOpen>>
  /\ UNCHANGED program

\* Line 327: the deferred call of the finalizer hands the result over.
DeferredComplete(p) ==
  /\ pc[p] = "emit"
  /\ onEvent' = [onEvent EXCEPT ![p] = Append(@, StackEvent("Complete", "", NoEvent))]
  /\ trace' = [trace EXCEPT ![p] = Append(@, "Complete")]
  /\ Popped(p)
  /\ UNCHANGED <<shared, budget, call, ret, workdir, consumer, complete, logOpen>>
  /\ UNCHANGED program

\* Line 277.
DeferredClose(p) ==
  /\ Deferred(p, "Close")
  /\ logOpen' = [logOpen EXCEPT ![p] = FALSE]
  /\ trace' = [trace EXCEPT ![p] = Append(@, "Close")]
  /\ Popped(p)
  /\ UNCHANGED <<shared, budget, call, ret, workdir, onEvent, consumer, complete>>
  /\ UNCHANGED program

\* Lines 612-620.
PushState(blob, file, ok) == ProviderPushState(blob, file, ok)

\* Line 121: the error of the deferred push is dropped.
DeferredPush(p) ==
  /\ Deferred(p, "PushState")
  /\ \E ok \in BOOLEAN : remote' = PushState(remote, local[p], ok)
  /\ trace' = [trace EXCEPT ![p] = Append(@, "Push")]
  /\ Popped(p)
  /\ UNCHANGED <<lock, budget, call, ret, workdir, onEvent, consumer, complete, logOpen>>
  /\ UNCHANGED program

\* The marker files in the order os.ReadDir lists them.
MarkerList(files) == SelectSeqBy(MarkerOrder, files)

\* Lines 569-586: what Unlock leaves when os.ReadDir fails (failAt = 0), when
\* os.Remove fails on the failAt-th marker file, and when nothing fails
\* (failAt beyond the files): the marker files, the lock, the error.
Unlock(held, files, failAt) ==
  LET list == MarkerList(files) IN
    IF failAt = 0 THEN [files |-> files, lock |-> held, err |-> ErrOther]
    ELSE IF failAt <= Len(list)
    THEN [files |-> files \ {list[i] : i \in 1..(failAt - 1)}, lock |-> held,
          err |-> ErrOther]
    ELSE [files |-> files \ Range(list), lock |-> ProviderUnlock(held), err |-> ErrNil]

\* Line 109: the error of the deferred Unlock is dropped.
DeferredUnlock(p) ==
  /\ Deferred(p, "Unlock")
  /\ \E failAt \in 0..(Len(MarkerOrder) + 1) :
       LET u == Unlock(lock, markers[p], failAt) IN
         /\ failAt <= Len(MarkerList(markers[p])) + 1
         /\ markers' = [markers EXCEPT ![p] = u.files]
         /\ lock' = u.lock
         /\ trace' = [trace EXCEPT ![p] =
              Append(@, IF u.err = ErrNil THEN "Unlock" ELSE "UnlockFailed")]
  /\ Popped(p)
  /\ UNCHANGED <<remote, budget, call, ret, local, onEvent, consumer, complete, logOpen>>
  /\ UNCHANGED program

\* ---------------------------------------------------------------- Import

\* Lines 434-450: the URN of the resource, qualified by the parent's type.
ImportURN(opts) ==
  IF opts.Parent # <<>> THEN URN(<<opts.Parent[1], opts.Type>>, opts.Name)
  ELSE URN(<<opts.Type>>, opts.Name)

\* Lines 440-450: the URN of the parent.
ImportParent(opts) ==
  IF opts.Parent # <<>> THEN URN(<<opts.Parent[1]>>, opts.Parent[2]) ELSE NoURN

\* tokens.ParseTypeToken: a type token has three parts.
ValidType(type) == Len(type) = 3

\* An Import that appends a record without looking for the URN.
ImportResourcesAppending(resources, opts) ==
  Append(resources,
         Resource(ImportURN(opts), ImportParent(opts), TRUE, opts.ID, opts.Type))

\* Lines 529-544: the resource list with the record of the URN set, the first
\* record of that URN if there is one, a new last record otherwise.
ImportResources(resources, opts) ==
  LET urn == ImportURN(opts)
      found == {i \in 1..Len(resources) : resources[i].urn = urn}
      list == IF found = {} THEN Append(resources, Resource(NoURN, NoURN, FALSE, "", <<>>))
              ELSE resources
      existingIndex == IF found = {} THEN Len(list)
                       ELSE CHOOSE i \in found : \A j \in found : i <= j
  IN [list EXCEPT ![existingIndex] =
        [@ EXCEPT !.urn = urn, !.parent = ImportParent(opts), !.custom = TRUE,
                  !.id = opts.ID, !.type = opts.Type]]

\* Lines 433-453: the URNs are built; a parent without "::" makes line 444
\* index out of range, and the process dies of the panic.
ImportStart(p) ==
  /\ Idle(p)
  /\ \E opts \in ImportInputs :
       /\ Begin(p, [name |-> "Import", cmd |-> "", opts |-> opts])
       /\ pc' = [pc EXCEPT ![p] = IF Len(opts.Parent) = 1 THEN "panic" ELSE "ilock"]
  /\ UNCHANGED <<shared, evLeft, ret, defers, trace, workdir, onEvent, consumer, complete,
                 logOpen>>
  /\ UNCHANGED program

\* Lines 455-459.
ImportLock(p) ==
  /\ pc[p] = "ilock"
  /\ LET err == ProviderLock(lock) IN
       IF ~LockAcquired(err)
       THEN /\ Return(p, err, defers[p])
            /\ trace' = [trace EXCEPT ![p] = Append(@, "LockFailed")]
            /\ UNCHANGED lock
       ELSE /\ lock' = TRUE
            /\ defers' = [defers EXCEPT ![p] = DeferProviderUnlock(@)]
            /\ pc' = [pc EXCEPT ![p] = "ipull"]
            /\ trace' = [trace EXCEPT ![p] = Append(@, "Lock")]
            /\ UNCHANGED ret
  /\ UNCHANGED <<remote, budget, call, workdir, onEvent, consumer, complete, logOpen>>
  /\ UNCHANGED program

\* Lines 461-464: any error of the pull ends the import.
ImportPull(p) ==
  /\ pc[p] = "ipull"
  /\ \E r \in PullState(remote, local[p]) :
       /\ local' = [local EXCEPT ![p] = r.file]
       /\ trace' = [trace EXCEPT ![p] =
            Append(@, IF r.err = ErrNil THEN "Pull"
                      ELSE IF r.err = ErrStateNotFound THEN "PullNotFound"
                      ELSE "PullFailed")]
       /\ IF r.err # ErrNil
          THEN Return(p, r.err, defers[p])
          ELSE /\ pc' = [pc EXCEPT ![p] = "iapply"]
               /\ UNCHANGED <<ret, defers>>
  /\ UNCHANGED <<shared, budget, call, markers, onEvent, consumer, complete, logOpen>>
  /\ UNCHANGED program

\* The steps of lines 466-561 that can fail, in order.
ImportSteps ==
  <<"passphrase", "env", "workspace", "stack", "config", "export", "unmarshal",
    "typetoken", "import", "refresh">>

\* The step named step was reached and did not fail, when the import fails
\* at the step named fail.
ImportPassed(step, fail) ==
  fail = "none" \/ IndexOf(ImportSteps, step) < IndexOf(ImportSteps, fail)

\* The failures the import of opts can meet: the type token fails to parse
\* exactly when it is malformed, the other steps whenever their collaborator
\* fails.
ImportFailures(opts) ==
  IF ValidType(opts.Type) THEN (Range(ImportSteps) \ {"typetoken"}) \cup {"none"}
  ELSE {s \in Range(ImportSteps) : IndexOf(ImportSteps, s) <= IndexOf(ImportSteps, "typetoken")}

\* Lines 466-561: passphrase, environment, workspace (writes Pulumi.yaml),
\* selection of the stack, config (writes Pulumi.<stage>.yaml), export of the
\* deployment, the edit of its resource list, its import into the local
\* state, the refresh of the URN.  A failing step ends the import.
ImportApply(p) ==
  /\ pc[p] = "iapply"
  /\ \E fail \in ImportFailures(call[p].opts) :
       /\ markers' = [markers EXCEPT ![p] =
            @ \cup (IF ImportPassed("workspace", fail) THEN {"Pulumi.yaml"} ELSE {})
              \cup (IF ImportPassed("config", fail) THEN {"Pulumi.dev.yaml"} ELSE {})]
       /\ local' = [local EXCEPT ![p] =
            IF ImportPassed("import", fail)
            THEN Snapshot(ImportResources(@.resources, call[p].opts)) ELSE @]
       /\ IF fail # "none"
          THEN /\ Return(p, ErrOther, defers[p])
               /\ trace' = [trace EXCEPT ![p] =
                    Append(@, IF ImportPassed("import", fail) THEN "RefreshFailed"
                              ELSE "ImportFailed")]
          ELSE /\ pc' = [pc EXCEPT ![p] = "ipush"]
               /\ trace' = [trace EXCEPT ![p] = Append(@, "Refresh")]
               /\ UNCHANGED <<ret, defers>>
  /\ UNCHANGED <<shared, budget, call, onEvent, consumer, complete, logOpen>>
  /\ UNCHANGED program

\* Line 562: Import returns the error of the push.
ImportPush(p) ==
  /\ pc[p] = "ipush"
  /\ \E ok \in BOOLEAN :
       /\ remote' = PushState(remote, local[p], ok)
       /\ Return(p, IF ok /\ local[p].exists THEN ErrNil ELSE ErrOther, defers[p])
  /\ trace' = [trace EXCEPT ![p] = Append(@, "Push")]
  /\ UNCHANGED <<lock, budget, call, workdir, onEvent, consumer, complete, logOpen>>
  /\ UNCHANGED program

\* Line 459: the deferred provider.Unlock.
DeferredProviderUnlock(p) ==
  /\ Deferred(p, "ProviderUnlock")
  /\ lock' = ProviderUnlock(lock)
  /\ trace' = [trace EXCEPT ![p] = Append(@, "Unlock")]
  /\ Popped(p)
  /\ UNCHANGED <<remote, budget, call, ret, workdir, onEvent, consumer, complete, logOpen>>
  /\ UNCHANGED program

\* ---------------------------------------------------------------- Cancel

\* Lines 622-628.
Cancel(p) ==
  /\ Idle(p)
  /\ Begin(p, [name |-> "Cancel", cmd |-> "", opts |-> NoOpts])
  /\ lock' = ProviderUnlock(lock)
  /\ trace' = [trace EXCEPT ![p] = Append(@, "Unlock")]
  /\ pc' = [pc EXCEPT ![p] = "done"]
  /\ UNCHANGED <<remote, evLeft, ret, defers, workdir, onEvent, consumer, complete, logOpen>>
  /\ UNCHANGED program

\* ------------------------------------------------------------------ spec

\* The outputs of the program that is followed when the outputs are not
\* what is looked at: a link, a plain output and a secret.
DefaultProgram ==
  JObject({ Entry(KeyLinks, JObject({Entry(<<"bucket">>, JString("name"))})),
            Entry(<<"api", "Url">>, JString("https")),
            Entry(<<"token">>, Wrapper("\"s\"")) })

\* The JSON texts a plaintext carries: a number, a string, an object, an
\* object that is a wrapper itself, and a text that is not JSON.
Texts == {"1", "\"s\"", "{\"b\":1}", "{\"plaintext\":\"1\"}", "{"}

\* Objects with a plaintext entry: the wrappers, and objects whose plaintext
\* is null or a number.
Wrappers ==
  {Wrapper(t) : t \in Texts}
    \cup {JObject({Entry(Plaintext, JNull)}), JObject({Entry(Plaintext, JNumber("1"))})}

\* Values without an object in them.
Plain == {JString("s"), JNull, JArray(<<JString("s")>>)}

\* The values of an output: plain ones and wrappers, alone, in an array, in
\* an object and in an object of an object.
Values ==
  Plain \cup Wrappers
    \cup {JArray(<<w>>) : w \in {Wrapper("1"), Wrapper("{\"b\":1}")}}
    \cup {JObject({Entry(<<"b">>, v)}) : v \in Plain \cup Wrappers}
    \cup {JObject({Entry(<<"b">>, JObject({Entry(<<"c">>, w)}))}) : w \in {Wrapper("1"), JString("s")}}

\* Programs whose outputs differ in what decrypt meets: one output of every
\* value, alone or beside a plain one, and a top-level plaintext entry.
DecryptPrograms ==
  {JObject({Entry(<<"a">>, v)}) : v \in Values}
    \cup {JObject({Entry(<<"a">>, v), Entry(<<"z">>, JString("s"))}) : v \in Wrappers}
    \cup {JObject({Entry(Plaintext, JString("1"))})}

\* A map of maps, as the program writes under a reserved key.
Named == JObject({Entry(<<"fn">>, JObject({Entry(<<"handler">>, JString("h")),
                                            Entry(<<"extra">>, JString("x"))}))})

\* The entries an output map can have under key: none, or one of the values.
Choice(key, values) == {{}} \cup {{Entry(key, v)} : v \in values}

\* Programs whose outputs differ in the keys the finalizer tells apart.
ExtractPrograms ==
  { JObject(l \cup h \cup w \cup r \cup o \cup u) :
      l \in Choice(KeyLinks, {Named, JString("s")}),
      h \in Choice(KeyHints, {JObject({Entry(<<"fn">>, JString("hint")),
                                       Entry(<<"n">>, JNumber("1"))})}),
      w \in Choice(KeyWarps, {Named}),
      r \in Choice(KeyReceivers, {Named, JNull}),
      o \in Choice(<<"_", "other">>, {JString("s")}),
      u \in Choice(<<"api", "Url">>, {JString("https"), Wrapper("\"s\"")}) }

Programs == DecryptPrograms \cup ExtractPrograms

\* The state before any call: the stack is new or has been deployed, every
\* working directory is fresh; calls and events are the budgets.
Start(calls, events, programs) ==
  /\ program \in programs
  /\ lock = FALSE
  /\ remote \in {NoState, Snapshot(<<RootWith(program)>>)}
  /\ callsLeft = calls
  /\ evLeft = events
  /\ pc = [p \in Procs |-> "idle"]
  /\ call = [p \in Procs |-> NoCall]
  /\ ret = [p \in Procs |-> ErrNil]
  /\ defers = [p \in Procs |-> <<>>]
  /\ local = [p \in Procs |-> NoState]
  /\ markers = [p \in Procs |-> {}]
  /\ trace = [p \in Procs |-> <<>>]
  /\ onEvent = [p \in Procs |-> <<>>]
  /\ chan = [p \in Procs |-> NoEvent]
  /\ closed = [p \in Procs |-> FALSE]
  /\ cpc = [p \in Procs |-> "off"]
  /\ cur = [p \in Procs |-> NoEvent]
  /\ received = [p \in Procs |-> <<>>]
  /\ complete = [p \in Procs |-> NewComplete]
  /\ eventlog = [p \in Procs |-> <<>>]
  /\ logOpen = [p \in Procs |-> FALSE]
  /\ ctxDone = [p \in Procs |-> FALSE]

Init == Start(MaxCalls, MaxEvents, {DefaultProgram})

\* One step of the main control flow of a Run of p.
RunStep(p) ==
  \/ RunStart(p)
  \/ RunLock(p)
  \/ RunPull(p)
  \/ RunSetup(p)
  \/ EngineReturn(p)
  \/ DeferredExtract(p)
  \/ DeferredComplete(p)
  \/ DeferredClose(p)
  \/ DeferredPush(p)
  \/ DeferredUnlock(p)

\* One step of an Import of p.
ImportStep(p) ==
  \/ ImportStart(p)
  \/ ImportLock(p)
  \/ ImportPull(p)
  \/ ImportApply(p)
  \/ ImportPush(p)
  \/ DeferredProviderUnlock(p)

\* One step of the event stream of a run of p: the engine's sends, the
\* consumer goroutine, the cancellation of the context.
EventStep(p) ==
  \/ EngineEmit(p)
  \/ CtxCancel(p)
  \/ ConsumerRecv(p)
  \/ ConsumerCtxDone(p)
  \/ ConsumerClosed(p)
  \/ ConsumerClassify(p)
  \/ ConsumerForward(p)

\* The process that is followed alone.
Main == "p1"

\* One process alone calls Run and Cancel.
Next ==
  \/ Exit(Main)
  \/ ~Leaving /\ (RunStep(Main) \/ EventStep(Main) \/ Cancel(Main))

\* One process alone: its runs one after the other, with the event stream of
\* every run.
Spec == Init /\ [][Next]_vars

\* The steps of the goroutine that called Run, once the call has begun.
MainFlow(p) ==
  \/ RunLock(p)
  \/ RunPull(p)
  \/ RunSetup(p)
  \/ EngineReturn(p)
  \/ DeferredExtract(p)
  \/ DeferredComplete(p)
  \/ DeferredClose(p)
  \/ DeferredPush(p)
  \/ DeferredUnlock(p)

\* The steps of the consumer goroutine (lines 289-323).
ConsumerFlow(p) ==
  \/ ConsumerRecv(p)
  \/ ConsumerCtxDone(p)
  \/ ConsumerClosed(p)
  \/ ConsumerClassify(p)
  \/ ConsumerForward(p)

\* The Go scheduler runs every goroutine that can take a step: the caller's
\* goroutine (the engine operation returns once none of its sends is
\* pending) and the consumer.  Nothing makes the caller start a call or
\* cancel the context, or the engine send another event.
Fairness ==
  /\ WF_vars(~Leaving /\ MainFlow(Main))
  /\ WF_vars(~Leaving /\ ConsumerFlow(Main))
  /\ WF_vars(Exit(Main))

\* One process alone under a fair scheduler.
SpecFair == Init /\ [][Next]_vars /\ Fairness

InitImport == Start(MaxImports, 0, {DefaultProgram})

\* One process alone calls Import and Cancel.
NextImport ==
  \/ Exit(Main)
  \/ ~Leaving /\ (ImportStep(Main) \/ Cancel(Main))

\* One process alone: its imports one after the other.
SpecImport == InitImport /\ [][NextImport]_vars

InitExtract == Start(MaxExtractCalls, 0, Programs)

\* One process alone calls Run.
NextExtract ==
  \/ Exit(Main)
  \/ ~Leaving /\ RunStep(Main)

\* One process alone: a run of any of the programs, its engine operation
\* sending no events.
SpecExtract == InitExtract /\ [][NextExtract]_vars

InitConcurrent == Start(MaxConcurrentCalls, 0, {DefaultProgram})

NextConcurrent ==
  \/ \E p \in Procs : Exit(p)
  \/ ~Leaving /\ \E p \in Procs : RunStep(p) \/ ImportStep(p) \/ Cancel(p)

\* All processes, interleaved, their engine operations sending no events.
SpecConcurrent == InitConcurrent /\ [][NextConcurrent]_vars

\* ------------------------------------------------------------ properties

\* The call of p in progress or just returned is a Run / an Import.
IsRun(p) == call[p].name = "Run"
IsImport(p) == call[p].name = "Import"

\* The call of p has returned.
Returned(p) == pc[p] = "done"

\* The operation op is in the record of the call of p.
Did(p, op) == op \in Range(trace[p])

\* The operation a came before the operation b in the call of p.
Before(p, a, b) == Did(p, a) /\ Did(p, b) /\ IndexOf(trace[p], a) < IndexOf(trace[p], b)

\* The types of the events the callback of p received, in order.
EventTypes(p) == [i \in 1..Len(onEvent[p]) |-> onEvent[p][i].type]

\* The engine events the callback of p received, in order.
Forwarded(p) ==
  LET engine == SelectSeq(onEvent[p], LAMBDA x : x.type = "Engine")
  IN [i \in 1..Len(engine) |-> engine[i].ev]

\* A step of p out of the acquisition of the lock: with the lock held it
\* returns the already-locked error at once and leaves the lock as it is;
\* with the lock free it takes it and goes on.
C1_AcquireStep(p) ==
  (pc[p] \in {"lock", "ilock"} /\ pc'[p] # pc[p]) =>
    IF lock
    THEN /\ lock'
         /\ ret'[p] = ErrLockExists
         /\ pc'[p] = "done"
         /\ trace'[p] = <<"LockFailed">>
    ELSE /\ lock'
         /\ ret'[p] = ErrNil
         /\ pc'[p] = (IF pc[p] = "lock" THEN "pull" ELSE "ipull")
         /\ trace'[p] = <<"Lock">>
         /\ defers'[p] # <<>>

\* The acquisition never waits: its step can be taken whatever the lock is.
C1_NonBlocking ==
  \A p \in Procs :
    /\ pc[p] = "lock" => ENABLED RunLock(p)
    /\ pc[p] = "ilock" => ENABLED ImportLock(p)

\* C1: the acquisition of the lock of the stack key by Run and Import is
\* exclusive and does not block: while the lock is held an acquisition fails
\* at once with the already-locked error, without waiting or retrying and
\* without touching the lock; once the lock is free an acquisition succeeds.
C1_LockExclusive == [](C1_NonBlocking) /\ [][\A p \in Procs : C1_AcquireStep(p)]_vars

\* C1 witness: one process holds the lock in the middle of its call and the
\* acquisition of another has failed with the already-locked error.
C1_Witness ==
  \E p, q \in Procs :
    /\ p # q
    /\ Did(p, "Lock") /\ ~Returned(p) /\ lock
    /\ Returned(q) /\ trace[q] = <<"LockFailed">> /\ ret[q] = ErrLockExists

\* C2 (as claimed): when a Run that acquired the lock has returned, the
\* remote lock is released.  The process is alone, so nobody else can have
\* taken the lock in between.
C2_LockReleasedOnReturn ==
  (IsRun(Main) /\ Returned(Main) /\ Did(Main, "Lock")) => ~lock

\* C3: when Run has called the engine operation, the state push is executed
\* exactly once, after the engine call has returned and after the output
\* extraction, whether the engine succeeded or failed.
C3_PushOnceAfterEngine ==
  \A p \in Procs :
    (IsRun(p) /\ Did(p, "Engine")) =>
      /\ Count(trace[p], "Push") <= 1
      /\ Did(p, "Push") =>
           /\ Before(p, "EngineDone", "Push")
           /\ Before(p, "Extract", "Push")
           /\ IndexOf(trace[p], "Engine") < IndexOf(trace[p], "EngineDone")
      /\ Returned(p) =>
           /\ Count(trace[p], "Push") = 1
           /\ ret[p] \in {ErrNil, ErrStackRunFailed}

\* C3 witness: a Run whose engine operation failed has returned, having
\* pushed the state once.
C3_Witness ==
  /\ IsRun(Main) /\ Returned(Main)
  /\ ret[Main] = ErrStackRunFailed
  /\ Count(trace[Main], "Push") = 1

\* The events after the first CompleteEvent in what the callback of p received.
AfterComplete(p) ==
  LET t == EventTypes(p)
  IN IF "Complete" \in Range(t) THEN SubSeq(t, IndexOf(t, "Complete") + 1, Len(t)) ELSE <<>>

\* C4 (as claimed): every Run that has returned, on whatever path, has
\* handed exactly one CompleteEvent to the callback.
C4_CompleteOnEveryPath ==
  \A p \in Procs : (IsRun(p) /\ Returned(p)) => Count(EventTypes(p), "Complete") = 1

\* C4 (amended): a Run that got as far as calling the engine operation hands
\* exactly one CompleteEvent to the callback before it returns, and a Run
\* that returned earlier hands none; the CompleteEvent is the last event of
\* the main control flow (only the consumer's engine events can follow it).
C4_CompleteOncePastSetup ==
  \A p \in Procs :
    IsRun(p) =>
      /\ Count(EventTypes(p), "Complete") <= 1
      /\ Count(EventTypes(p), "Complete") = 1 => Did(p, "Engine")
      /\ Returned(p) => Count(EventTypes(p), "Complete") = (IF Did(p, "Engine") THEN 1 ELSE 0)
      /\ Range(AfterComplete(p)) \subseteq {"Engine"}
      /\ Count(EventTypes(p), "Command") = 1 /\ EventTypes(p)[1] = "Command"

\* C4 witness: a Run whose engine operation failed has returned and the
\* callback has its CompleteEvent.
C4_Witness ==
  /\ IsRun(Main) /\ Returned(Main)
  /\ ret[Main] = ErrStackRunFailed
  /\ Count(EventTypes(Main), "Complete") = 1

\* C5: when the pull of a Run reports "not found", an "up" goes on (the
\* state push is deferred and the setup is next), and a destroy or refresh
\* returns ErrStageNotFound without ever calling the engine operation.
C5_PullNotFound ==
  \A p \in Procs :
    (IsRun(p) /\ Did(p, "PullNotFound")) =>
      IF call[p].cmd = "up"
      THEN /\ ret[p] # ErrStageNotFound
           /\ trace[p][Len(trace[p])] = "PullNotFound" =>
                pc[p] = "setup" /\ Head(defers[p]) = "PushState"
      ELSE /\ ret[p] = ErrStageNotFound
           /\ ~Did(p, "Engine")
           /\ pc[p] \in {"return", "done"}
           /\ "PushState" \notin Range(defers[p]) /\ ~Did(p, "Push")

\* C5 witness: an "up" whose pull reported "not found" has called the engine
\* operation.
C5_Witness ==
  /\ IsRun(Main) /\ call[Main].cmd = "up"
  /\ Did(Main, "PullNotFound") /\ Did(Main, "Engine")

\* C5 witness of the other case: a destroy or refresh has returned
\* ErrStageNotFound.
C5_WitnessNotFound ==
  /\ IsRun(Main) /\ call[Main].cmd # "up"
  /\ Returned(Main) /\ ret[Main] = ErrStageNotFound

\* The events the consumer of p has taken and is done with: all it received
\* but the one it is in the middle of.
Handled(p) ==
  IF cpc[p] \in {"classify", "forward"} THEN SubSeq(received[p], 1, Len(received[p]) - 1)
  ELSE received[p]

\* The events the consumer of p has classified.
Classified(p) ==
  IF cpc[p] = "classify" THEN SubSeq(received[p], 1, Len(received[p]) - 1) ELSE received[p]

\* An error diagnostic other than the generic "update failed" summary.
IsSpecificError(e) ==
  e.kind = "diagnostic" /\ e.severity = "error" /\ ~HasPrefix(e.message, <<"update", "failed">>)

\* The generic "update failed" error diagnostic.
IsGenericError(e) ==
  e.kind = "diagnostic" /\ e.severity = "error" /\ HasPrefix(e.message, <<"update", "failed">>)

\* The {message, URN} of the specific error diagnostics of events, in order.
SpecificErrors(events) ==
  LET errs == SelectSeq(events, IsSpecificError)
  IN [i \in 1..Len(errs) |-> [Message |-> errs[i].message, URN |-> errs[i].urn]]

\* C6: the Errors list of the run's result record is, in received order, the
\* {message, URN} of the error diagnostics the consumer has classified whose
\* message does not start with "update failed"; generic and non-error
\* diagnostics never get in, and a failing engine operation, the finalizer
\* and the return of Run leave the list as it is.
C6_ErrorsAreSpecificDiagnostics ==
  \A p \in Procs : IsRun(p) => complete[p].Errors = SpecificErrors(Classified(p))

\* C6 witness: the engine operation failed after a generic and a specific
\* error diagnostic; Run has returned, the callback has the CompleteEvent and
\* Errors holds the specific diagnostic alone.
C6_Witness ==
  /\ IsRun(Main) /\ Returned(Main) /\ ret[Main] = ErrStackRunFailed
  /\ "Complete" \in Range(EventTypes(Main))
  /\ received[Main] = <<EvGeneric, EvCreateFailed>>
  /\ complete[Main].Errors = <<[Message |-> <<"create", "failed">>, URN |-> "urn:bucket"]>>

\* C6 witness of the order: two specific diagnostics, in received order.
C6_WitnessOrder ==
  /\ IsRun(Main) /\ Returned(Main)
  /\ complete[Main].Errors =
       <<[Message |-> <<"update", "timeout">>, URN |-> "urn:queue"],
         [Message |-> <<"create", "failed">>, URN |-> "urn:bucket"]>>

\* C7 (as claimed): once the consumer is done with the events it received,
\* every one of them has been forwarded to the callback, the suppressed
\* error diagnostics too.
C7_EveryEventForwarded ==
  \A p \in Procs :
    (IsRun(p) /\ cpc[p] \in {"select", "stopped"}) =>
      \A e \in EngineEvents : Count(Forwarded(p), e) = Count(received[p], e)

\* C7 (amended): every engine event the consumer is done with has been
\* forwarded to the callback, once for each time it was received, whatever
\* its kind or severity, except the error diagnostics whose message starts
\* with "update failed": those are never forwarded.
C7_ForwardedUnlessGeneric ==
  \A p \in Procs :
    IsRun(p) =>
      \A e \in EngineEvents :
        Count(Forwarded(p), e) = (IF IsGenericError(e) THEN 0 ELSE Count(Handled(p), e))

\* C7 witness: a generic error diagnostic and a summary were received, and
\* the summary alone was forwarded.
C7_Witness ==
  /\ IsRun(Main) /\ cpc[Main] = "select"
  /\ received[Main] = <<EvGeneric, EvSummary>>
  /\ Forwarded(Main) = <<EvSummary>>

\* The lines of event.log for events.
Lines(events) == [i \in 1..Len(events) |-> LogLine(events[i])]

C8_WitnessClosed ==
  /\ IsRun(Main) /\ cpc[Main] = "select"
  /\ Forwarded(Main) = <<EvSummary, EvWarning>>
  /\ eventlog[Main] = <<LogLine(EvSummary)>>

\* No two records of a resource list have the same URN.
UniqueURNs(resources) ==
  \A i, j \in 1..Len(resources) : i # j => resources[i].urn # resources[j].urn

\* The step of an Import of p that edits the resource list and imports it.
C9_ImportStep(p) ==
  (pc[p] = "iapply" /\ pc'[p] # "iapply"
   /\ trace'[p][Len(trace'[p])] \in {"Refresh", "RefreshFailed"}) =>
    LET opts == call[p].opts
        pre == local[p].resources
        post == local'[p].resources
        types == IF opts.Parent = <<>> THEN <<opts.Type>> ELSE <<opts.Parent[1], opts.Type>>
        urn == <<Stage, App, types, opts.Name>>
        parent == IF opts.Parent = <<>> THEN <<>>
                  ELSE <<Stage, App, <<opts.Parent[1]>>, opts.Parent[2]>>
        Set(r) == [r EXCEPT !.urn = urn, !.parent = parent, !.custom = TRUE,
                            !.id = opts.ID, !.type = opts.Type]
        blank == [urn |-> <<>>, parent |-> <<>>, custom |-> FALSE, id |-> "",
                  type |-> <<>>, outputs |-> JObject({})]
    IN IF \A i \in 1..Len(pre) : pre[i].urn # urn
       THEN post = Append(pre, Set(blank))
       ELSE /\ Len(post) = Len(pre)
            /\ \E k \in 1..Len(pre) :
                 pre[k].urn = urn /\ post = [pre EXCEPT ![k] = Set(pre[k])]

\* C9: an Import of a URN the snapshot does not have appends exactly one
\* record (custom, the given ID and type, the parent's URN if a parent is
\* given) and leaves the others as they are; an Import of a URN the snapshot
\* has rewrites that record in place and leaves the number of records as it
\* is; so the URNs of the local and remote snapshots stay unique.
C9_ImportKeepsURNsUnique ==
  /\ [](\A p \in Procs : UniqueURNs(local[p].resources) /\ UniqueURNs(remote.resources))
  /\ [][\A p \in Procs : C9_ImportStep(p)]_vars

\* C9 witness: the record of a URN the pulled snapshot has was rewritten in
\* place (a new ID, the same number of records) and is about to be pushed.
C9_Witness ==
  /\ IsImport(Main) /\ pc[Main] = "ipush"
  /\ Len(local[Main].resources) = Len(remote.resources)
  /\ \E k \in 1..Len(remote.resources) :
       /\ remote.resources[k].id = "id-1"
       /\ local[Main].resources[k].id = "id-2"
       /\ local[Main].resources[k].urn = remote.resources[k].urn

\* C9 witness of the append: a record with a parent was appended.
C9_WitnessAppend ==
  /\ IsImport(Main) /\ pc[Main] = "ipush"
  /\ Len(local[Main].resources) = Len(remote.resources) + 1
  /\ local[Main].resources[Len(local[Main].resources)].parent # NoURN

\* C10: an Import that acquired the lock releases it on every path, as the
\* last thing it does; it pushes the state exactly when every step through
\* the refresh succeeded, and the remote state changes in no other step.
C10_ImportReleasesAndPushesOnSuccess ==
  /\ [](\A p \in Procs :
          IsImport(p) =>
            /\ (Returned(p) /\ Did(p, "Lock")) =>
                 trace[p][Len(trace[p])] = "Unlock" /\ ~lock
            /\ Count(trace[p], "Push") <= 1
            /\ Did(p, "Push") => SubSeq(trace[p], 1, 4) = <<"Lock", "Pull", "Refresh", "Push">>
            /\ (Returned(p) /\ Did(p, "Refresh")) => Did(p, "Push")
            /\ (Returned(p) /\ ~Did(p, "Push")) => ret[p] # ErrNil)
  /\ [][remote' # remote =>
          \E p \in Procs : pc[p] = "ipush" /\ trace[p] = <<"Lock", "Pull", "Refresh">>]_vars

\* C10 witness: the refresh of an Import failed after the local state was
\* edited; the Import has returned the error, pushed nothing and released
\* the lock.
C10_Witness ==
  /\ IsImport(Main) /\ Returned(Main) /\ ret[Main] # ErrNil
  /\ trace[Main] = <<"Lock", "Pull", "RefreshFailed", "Unlock">>
  /\ local[Main] # remote
  /\ ~lock

\* C10 witness of the success: the Import pushed the edited state and
\* released the lock.
C10_WitnessPushed ==
  /\ IsImport(Main) /\ Returned(Main) /\ ret[Main] = ErrNil
  /\ trace[Main] = <<"Lock", "Pull", "Refresh", "Push", "Unlock">>
  /\ remote = local[Main]
  /\ ~lock

\* The finalizer of p has decrypted the outputs of the first resource.
Decrypted(p) == IsRun(p) /\ Did(p, "Extract") /\ Len(complete[p].Resources) > 0

\* The outputs of the first resource as exported, and as decrypted.
ExportedOutputs(p) == local[p].resources[1].outputs
DecryptedOutputs(p) == complete[p].Resources[1].outputs

\* An object that carries a plaintext.
IsPlaintextWrapper(value) ==
  /\ value.k = "object"
  /\ \E e \in value.v : e.key = <<"plaintext">> /\ e.val.k # "null"

RECURSIVE HasWrapper(_)
\* The value is a plaintext wrapper or has one in it, at any depth.
HasWrapper(value) ==
  \/ IsPlaintextWrapper(value)
  \/ value.k = "object" /\ \E e \in value.v : HasWrapper(e.val)
  \/ value.k = "array" /\ \E i \in 1..Len(value.v) : HasWrapper(value.v[i])

\* C11 (as claimed): decrypt returns an output map without wrappers as it
\* is, and no value of the map it returns is a plaintext wrapper or has one
\* in it, at any depth.
C11_DecryptUnwrapsAll ==
  \A p \in Procs :
    Decrypted(p) =>
      /\ (\A e \in ExportedOutputs(p).v : ~HasWrapper(e.val)) =>
           DecryptedOutputs(p) = ExportedOutputs(p)
      /\ \A e \in DecryptedOutputs(p).v : ~HasWrapper(e.val)

\* The key starts with an underscore.
Underscored(key) == Len(key) > 0 /\ key[1] = "_"

\* The four reserved keys.
Reserved == {<<"_", "links">>, <<"_", "hints">>, <<"_", "warps">>, <<"_", "receivers">>}

\* The finalizer of p got through its type assertions: every reserved entry
\* of the decrypted outputs is an object.
Asserted(p) == \A e \in DecryptedOutputs(p).v : e.key \in Reserved => e.val.k = "object"

\* C12 (as claimed): the reserved keys never appear in Outputs, and every
\* other entry of the decrypted output map is in Outputs as it is.
C12_OutputsAllButReserved ==
  \A p \in Procs :
    Decrypted(p) =>
      /\ \A e \in complete[p].Outputs.v : e.key \notin Reserved
      /\ \A e \in DecryptedOutputs(p).v : e.key \notin Reserved => e \in complete[p].Outputs.v

\* C12 (amended): no key that starts with an underscore, the reserved keys
\* among them, appears in Outputs; when every reserved entry is an object,
\* Outputs is exactly the entries of the decrypted output map whose key does
\* not start with an underscore, as they are; when one is not, the finalizer
\* panics before the copy and Outputs stays empty.
C12_OutputsNotUnderscored ==
  \A p \in Procs :
    Decrypted(p) =>
      /\ \A e \in complete[p].Outputs.v : ~Underscored(e.key) /\ e.key \notin Reserved
      /\ IF Asserted(p)
         THEN complete[p].Outputs.v = {e \in DecryptedOutputs(p).v : ~Underscored(e.key)}
         ELSE complete[p].Outputs.v = {} /\ ret[p] = Panicking

\* C12 witness: the decrypted outputs have links, an underscored key that is
\* not reserved and a plain output, and Outputs has the plain output alone.
C12_Witness ==
  /\ Decrypted(Main) /\ Asserted(Main)
  /\ \E e \in DecryptedOutputs(Main).v : e.key = <<"_", "links">>
  /\ \E e \in DecryptedOutputs(Main).v : e.key = <<"_", "other">>
  /\ complete[Main].Outputs = [k |-> "object",
                               v |-> {[key |-> <<"api", "Url">>,
                                       val |-> [k |-> "string", v |-> "https"]]}]

\* C12 witness of the panic: a reserved entry is not an object and Outputs
\* is empty though the outputs have a plain entry.
C12_WitnessPanic ==
  /\ Decrypted(Main) /\ ~Asserted(Main)
  /\ \E e \in DecryptedOutputs(Main).v : e.key = <<"api", "Url">>
  /\ complete[Main].Outputs.v = {}
  /\ pc[Main] = "panic"

\* The step of a Run of p out of the acquisition of a lock that is held: the
\* callback gets the ConcurrentUpdateEvent after the command, Run returns
\* the lock's error in that step with nothing deferred, and the lock, the
\* remote state and the working directory stay as they are.
C13_RefusedStep(p) ==
  (pc[p] = "lock" /\ lock /\ pc'[p] # "lock") =>
    /\ pc'[p] = "done" /\ ret'[p] = ErrLockExists /\ defers'[p] = <<>>
    /\ Len(onEvent'[p]) = 2
    /\ onEvent'[p][1].type = "Command" /\ onEvent'[p][2].type = "ConcurrentUpdate"
    /\ lock' /\ remote' = remote /\ local' = local /\ markers' = markers

\* C13: a Run that finds the lock held hands exactly one
\* ConcurrentUpdateEvent to the callback and returns the lock's error at
\* once; it pulls no state, calls no engine operation, pushes nothing and
\* releases nothing, so the holder keeps the lock and the remote state stays
\* as it is.  No other Run hands over a ConcurrentUpdateEvent.
C13_RefusedRunDoesNothingElse ==
  /\ [](\A p \in Procs :
          IsRun(p) =>
            /\ Count(EventTypes(p), "ConcurrentUpdate") =
                 (IF Did(p, "LockFailed") THEN 1 ELSE 0)
            /\ Did(p, "LockFailed") =>
                 /\ trace[p] = <<"LockFailed">>
                 /\ Returned(p) /\ ret[p] = ErrLockExists)
  /\ [][\A p \in Procs : C13_RefusedStep(p)]_vars

\* C13 witness: a Run was refused while another call, past its pull, holds
\* the lock; the refused Run has returned with the ConcurrentUpdateEvent.
C13_Witness ==
  \E p, q \in Procs :
    /\ p # q
    /\ Did(q, "Lock") /\ Did(q, "Pull") /\ ~Did(q, "Push") /\ ~Returned(q) /\ lock
    /\ IsRun(p) /\ Returned(p) /\ ret[p] = ErrLockExists
    /\ EventTypes(p) = <<"Command", "ConcurrentUpdate">>

\* p has pulled the remote state and has neither pushed it nor returned.
BetweenPullAndPush(p) ==
  /\ Did(p, "Pull") \/ Did(p, "PullNotFound")
  /\ ~Did(p, "Push")
  /\ ~Returned(p)

\* C14: the remote state has a single writer at a time: in any interleaving
\* of Run, Import and Cancel on the key, no two executions are between their
\* own pull and their own push of the state at the same moment.
C14_SingleWriter ==
  \A p, q \in Procs :
    p # q => ~(BetweenPullAndPush(p) /\ BetweenPullAndPush(q))

\* C15: whenever the remote lock is released, by the deferred Unlock of Run,
\* by Import or by Cancel, the files named Pulumi* of the working directory
\* of the caller have been deleted: none exists when the lock becomes free.
C15_MarkersDeletedBeforeRelease ==
  [][(lock /\ ~lock') => markers'[Main] = {}]_vars

\* C16: the consumer has drained the event channel before the finalizer
\* reads RunResult: once the CompleteEvent was handed to the caller no
\* engine event is waiting on the channel or still being processed by the
\* consumer, and no later step writes RunResult.Errors or
\* RunResult.Finished.
C16_ConsumerDrainedBeforeComplete ==
  /\ [](\A p \in Procs :
          Did(p, "Complete") =>
            chan[p] = NoEvent /\ cpc[p] \notin {"classify", "forward"})
  /\ [][\A p \in Procs :
          (Did(p, "Complete") /\ Did(p, "Complete")') =>
            /\ complete'[p].Errors = complete[p].Errors
            /\ complete'[p].Finished = complete[p].Finished]_vars

\* The deferred calls of a Run of p past the engine call ran in the order
\* extraction, CompleteEvent, push, release, as far as they have run.
FinalizersInOrder(p) ==
  LET after == SubSeq(trace[p], IndexOf(trace[p], "EngineDone") + 1, Len(trace[p]))
      ran == SelectSeqBy(after, {"Extract", "Complete", "Push", "Unlock", "UnlockFailed"})
  IN /\ \/ IsPrefixOf(ran, <<"Extract", "Complete", "Push", "Unlock">>)
        \/ IsPrefixOf(ran, <<"Extract", "Complete", "Push", "UnlockFailed">>)
     /\ Returned(p) => Len(ran) = 4

\* The step of the state push of a Run of p is taken with the lock held, and
\* held by no other execution.
PushUnderLock(p) ==
  (IsRun(p) /\ ~Did(p, "Push") /\ Did(p, "Push")') =>
    /\ lock
    /\ \A q \in Procs \ {p} : ~(Did(q, "Lock") /\ ~Returned(q))

\* The finalizers of every Run past the engine call ran in order.
FinalizersOrdered ==
  \A p \in Procs : (IsRun(p) /\ Did(p, "EngineDone")) => FinalizersInOrder(p)

\* C17: on every exit path of Run past the engine call the finalizers run in
\* reverse order of acquisition: extraction and CompleteEvent, then the state
\* push, then the release of the lock; so the push is made while the lock is
\* still held and no other execution has acquired it before the push.
C17_FinalizersInOrderUnderLock ==
  /\ []FinalizersOrdered
  /\ [][\A p \in Procs : PushUnderLock(p)]_vars

\* C18: once the context of the run is cancelled the consumer stops at once:
\* waiting at its select statement, it takes no event that is pending on the
\* channel or sent afterwards (an event it takes is classified, forwarded to
\* the callback and written to event.log by lines 299-320, which do not look
\* at the context); the engine operation is left running.
C18_NoEventAfterCancel ==
  [][\A p \in Procs :
       (ctxDone[p] /\ ctxDone'[p] /\ cpc[p] = "select") =>
         /\ cpc'[p] \in {"select", "stopped"}
         /\ received'[p] = received[p]]_vars

\* A summary event is among events.
HasSummary(events) == \E i \in 1..Len(events) : events[i].kind = "summary"

\* C19: RunResult.Finished starts false, is true exactly when the consumer
\* has processed a summary event of the run, and is never reset during the
\* run; a run whose engine operation failed without a summary event has
\* Finished false.
C19_FinishedIffSummary ==
  /\ [](\A p \in Procs :
          complete[p].Finished <=> (IsRun(p) /\ HasSummary(Handled(p))))
  /\ [][\A p \in Procs :
          (complete[p].Finished /\ pc'[p] # "idle") => complete'[p].Finished]_vars

\* C19 witness: a Run has returned, the consumer has processed a diagnostic
\* and the summary event, and the CompleteEvent the callback has carries
\* Finished true.
C19_Witness ==
  /\ IsRun(Main) /\ Returned(Main) /\ "Complete" \in Range(EventTypes(Main))
  /\ cpc[Main] \in {"select", "stopped"}
  /\ Len(received[Main]) = 2 /\ received[Main][2] = EvSummary
  /\ received[Main][1] # EvSummary
  /\ complete[Main].Finished

\* C19 witness of the other case: the engine operation failed after an error
\* diagnostic and no summary event; Finished is false.
C19_WitnessFailed ==
  /\ IsRun(Main) /\ Returned(Main) /\ ret[Main] = ErrStackRunFailed
  /\ "Complete" \in Range(EventTypes(Main))
  /\ cpc[Main] \in {"select", "stopped"}
  /\ received[Main] = <<EvCreateFailed>>
  /\ ~complete[Main].Finished

\* C20: under fair scheduling every Run that has started the engine
\* operation returns in the end, and every event the engine sends on the
\* channel is received in the end, also when the context is cancelled while
\* the engine still has events to send.
C20_RunReturnsNoSendBlocked ==
  \A p \in Procs :
    /\ (pc[p] = "engine") ~> (pc[p] = "done")
    /\ (chan[p] # NoEvent) ~> (chan[p] = NoEvent)

====
